---- MODULE Spec2Model ----
(***************************************************************************)
(* Model of book_desk.py: the Appspace desk auto-booker.  One run of       *)
(* main() is a sequential process: load tokens, try a token refresh, then  *)
(* either the booking flow (check_existing_reservations, create_reservation*)
(* with its lock and create requests and the 409 reconciliation) or the    *)
(* check-in flow (get_todays_events, checkin_reservation).  The remote     *)
(* service and the wall clock are the environment: every response is drawn *)
(* from a small set, and local midnight may pass between two steps.        *)
(***************************************************************************)
EXTENDS Integers, Sequences, FiniteSets, TLC

(***************************************************************************)
(* Bounds of the model                                                     *)
(***************************************************************************)
\* longest "items" list a list-events response carries
MaxItems == 2
\* how many times local midnight may pass during one run
MaxTicks == 1

(***************************************************************************)
(* Program constants                                                       *)
(***************************************************************************)
DESK_RESOURCE_ID == "desk"
OTHER_RESOURCE_ID == "other"
DEFAULT_START_HOUR == 9
DEFAULT_START_MINUTE == 30
DEFAULT_END_HOUR == 17
DEFAULT_END_MINUTE == 30
DAYS_AHEAD == 7
\* timedelta(minutes=30) on both sides of the start time
WINDOW_MINUTES == 30
\* minutes of one calendar day
MinutesPerDay == 24 * 60
\* a status list that also lets a finished reservation through
valid_statuses_with_completed == {"Confirmed", "Checkin", "Pending", "NotConfirmed", "Completed"}
valid_statuses == {"Confirmed", "Checkin", "Pending", "NotConfirmed"}
\* the "status" parameter of the list query of check_existing_reservations:
\* "NotConfirmed, Pending, Checkin, Active, Conflict, Completed"
EXISTING_STATUS_FILTER ==
    {"NotConfirmed", "Pending", "Checkin", "Active", "Conflict", "Completed"}
\* a list query without a "status" parameter (get_todays_events)
NO_STATUS_FILTER == {}

(***************************************************************************)
(* JSON values as the code reads them.  A field of a JSON object is        *)
(* absent (dict.get returns the default), null (dict.get returns None) or  *)
(* a list of resource ids.                                                 *)
(***************************************************************************)
Absent == [k |-> "absent", v |-> <<>>]
Null == [k |-> "null", v |-> <<>>]
List(s) == [k |-> "list", v |-> s]

\* values of item.resources and of item.reservation.resources
FlatFields == {Absent, Null, List(<<OTHER_RESOURCE_ID>>), List(<<DESK_RESOURCE_ID>>)}
NestedFields == {Absent, Null, List(<<OTHER_RESOURCE_ID>>), List(<<DESK_RESOURCE_ID>>)}

\* startAt / effectiveStartAt strings: absent, not ISO-8601, or an instant
\* (minutes since the Monday 00:00 the model starts at)
NoTime == [k |-> "absent", t |-> 0]
BadTime == [k |-> "bad", t |-> 0]
Iso(t) == [k |-> "iso", t |-> t]

\* the instant a check-in run starts at: Monday 09:00 local
CheckinClock == 9 * 60
StartTimes == {Iso(CheckinClock + 45), Iso(CheckinClock + 30), Iso(CheckinClock + 10),
               Iso(CheckinClock - 31)}
\* (startAt, effectiveStartAt) pairs of an event
StartPairs == {<<NoTime, NoTime>>, <<BadTime, NoTime>>, <<NoTime, Iso(CheckinClock + 45)>>}
                 \cup {<<s, NoTime>> : s \in StartTimes}

\* reservation.status; "absent" is a missing key
Statuses == {"Confirmed", "Checkin", "Pending", "NotConfirmed", "Active", "Completed", "absent"}

\* One element of "items".  obj: the element is a JSON object; reservation is
\* "absent", "null" or "obj"; res_resources, status, effectiveStartAt are the
\* fields of the reservation object.
Item(o, r, rv, rr, st, sa, ea) ==
    [obj |-> o, resources |-> r, reservation |-> rv, res_resources |-> rr,
     status |-> st, startAt |-> sa, effectiveStartAt |-> ea]

NotAnObject == Item(FALSE, Absent, "absent", Absent, "absent", NoTime, NoTime)

\* Items whose nested resource list does not hold the desk: no code path reads
\* their status or start time, so these fields are left at one value.
PlainItems ==
    {NotAnObject}
      \cup {Item(TRUE, r, rv, Absent, "absent", NoTime, NoTime) :
              r \in FlatFields, rv \in {"absent", "null"}}
      \cup {Item(TRUE, r, "obj", rr, "absent", NoTime, NoTime) :
              r \in FlatFields, rr \in NestedFields \ {List(<<DESK_RESOURCE_ID>>)}}

\* Items that carry the desk in reservation.resources; booking reads neither
\* status nor start time, check-in reads both.
NestedDeskItems(checkin) ==
    IF checkin
    THEN {Item(TRUE, Absent, "obj", List(<<DESK_RESOURCE_ID>>), st, p[1], p[2]) :
            st \in Statuses, p \in StartPairs}
    ELSE {Item(TRUE, r, "obj", List(<<DESK_RESOURCE_ID>>), "Confirmed", NoTime, NoTime) :
            r \in FlatFields}

Items(checkin) == PlainItems \cup NestedDeskItems(checkin)

SeqsUpTo(S, n) == UNION {[1..m -> S] : m \in 0..n}

\* A response to a request: a transport failure (status 0), or an HTTP status
\* with a body.  json: the body parses; dict: it parses to an object; items:
\* the "items" key (absent, null or a list of Items).
Body(j, d, ik, iv) == [json |-> j, dict |-> d, itemsKind |-> ik, items |-> iv]
NoBody == Body(FALSE, FALSE, "absent", <<>>)
Response(st, b) == [status |-> st, body |-> b]
TransportError == Response(0, NoBody)

ListBodies(checkin) ==
    {NoBody, Body(TRUE, FALSE, "absent", <<>>), Body(TRUE, TRUE, "absent", <<>>),
     Body(TRUE, TRUE, "null", <<>>)}
      \cup {Body(TRUE, TRUE, "list", s) : s \in SeqsUpTo(Items(checkin), MaxItems)}

ListResponses(checkin) ==
    {TransportError, Response(500, NoBody)}
      \cup {Response(200, b) : b \in ListBodies(checkin)}

\* what GET /reservation/users/me/events may answer in each mode
BookingListResponses == ListResponses(FALSE)
CheckinListResponses == ListResponses(TRUE)

(***************************************************************************)
(* Command line and environment                                            *)
(***************************************************************************)
\* A "HH:MM"-like argument after split(":"): each part is a numeric string
\* (int() returns val) or not (int() raises ValueError).
Num(n) == [num |-> TRUE, val |-> n]
NaN == [num |-> FALSE, val |-> 0]
NoArg == [given |-> FALSE, parts |-> <<>>]
Arg(parts) == [given |-> TRUE, parts |-> parts]

CommandLine(c, d, s, e) == [checkin |-> c, days_ahead |-> d, start_time |-> s, end_time |-> e]
DefaultCommandLine == CommandLine(FALSE, NoArg, NoArg, NoArg)
CheckinCommandLine == CommandLine(TRUE, NoArg, NoArg, NoArg)

\* the command lines a run is started with: no option, --checkin,
\* --days-ahead 1, --start-time 10:00, --start-time 25:00,
\* --start-time 10:xx --end-time xx:15, --start-time 2:30 --end-time 3:00
CommandLines ==
    {DefaultCommandLine, CheckinCommandLine,
     CommandLine(FALSE, Arg(<<Num(1)>>), NoArg, NoArg),
     CommandLine(FALSE, NoArg, Arg(<<Num(10), Num(0)>>), NoArg),
     CommandLine(FALSE, NoArg, Arg(<<Num(25), Num(0)>>), NoArg),
     CommandLine(FALSE, NoArg, Arg(<<Num(10), NaN>>), Arg(<<NaN, Num(15)>>)),
     CommandLine(FALSE, NoArg, Arg(<<Num(2), Num(30)>>), Arg(<<Num(3), Num(0)>>))}

get_days_ahead(args) ==
    IF args.days_ahead.given /\ args.days_ahead.parts[1].num
    THEN args.days_ahead.parts[1].val
    ELSE DAYS_AHEAD

\* One bound of get_booking_times: the hour is assigned before the minute is
\* parsed, so a ValueError on the minute keeps the parsed hour.
ParseTimeArg(arg, hour, minute) ==
    IF ~arg.given THEN <<hour, minute>>
    ELSE IF ~arg.parts[1].num THEN <<hour, minute>>
    ELSE IF Len(arg.parts) > 1
         THEN IF arg.parts[2].num
              THEN <<arg.parts[1].val, arg.parts[2].val>>
              ELSE <<arg.parts[1].val, minute>>
         ELSE <<arg.parts[1].val, 0>>

get_booking_times(args) ==
    LET s == ParseTimeArg(args.start_time, DEFAULT_START_HOUR, DEFAULT_START_MINUTE)
        e == ParseTimeArg(args.end_time, DEFAULT_END_HOUR, DEFAULT_END_MINUTE)
    IN  [start_hour |-> s[1], start_minute |-> s[2], end_hour |-> e[1], end_minute |-> e[2]]

\* datetime(y, m, d, hour, minute, 0) raises ValueError outside these ranges
ValidTime(hour, minute) == hour \in 0..23 /\ minute \in 0..59

(***************************************************************************)
(* Dates.  A date is a day number; day 0 is a Monday, as date.weekday().   *)
(***************************************************************************)
DateOf(instant) == instant \div MinutesPerDay

get_booking_date(clock, args) == DateOf(clock) + get_days_ahead(args)

is_weekday(date) == (date % 7) < 5

(***************************************************************************)
(* America/New_York.  Offsets are minutes east of UTC.  The zone changes   *)
(* its offset on Sundays only: at 02:00 EST the clocks go to 03:00 EDT,    *)
(* and at 02:00 EDT back to 01:00 EST.  The two weeks of the model hold    *)
(* one change of each kind.                                                *)
(***************************************************************************)
EST == 0 - 5 * 60
EDT == 0 - 4 * 60
\* the Sunday the clocks go forward, and the Sunday they go back
SpringForwardDate == 6
FallBackDate == 13

\* the change to EDT on the Monday after
UtcOffsetChangeOnMonday(date, minute) ==
    IF date < SpringForwardDate + 1 THEN EST
    ELSE IF date = SpringForwardDate + 1 THEN IF minute < 3 * 60 THEN EST ELSE EDT
    ELSE IF date < FallBackDate THEN EDT
    ELSE IF date = FallBackDate THEN IF minute < 2 * 60 THEN EDT ELSE EST
    ELSE EST

\* utcoffset() of datetime(date, minute of the day, tzinfo=eastern), fold=0:
\* a wall time the change skips (02:00-02:59) takes the offset in force
\* before it, a wall time that occurs twice (01:00-01:59) its first
\* occurrence.
UtcOffset(date, minute) ==
    IF date < SpringForwardDate THEN EST
    ELSE IF date = SpringForwardDate THEN IF minute < 3 * 60 THEN EST ELSE EDT
    ELSE IF date < FallBackDate THEN EDT
    ELSE IF date = FallBackDate THEN IF minute < 2 * 60 THEN EDT ELSE EST
    ELSE EST

\* datetime(date, hour, minute, 0, tzinfo=eastern).astimezone(utc), in
\* minutes since 00:00 UTC of day 0
ToUtc(date, hour, minute) ==
    date * MinutesPerDay + hour * 60 + minute - UtcOffset(date, hour * 60 + minute)

(***************************************************************************)
(* Matching an event against the desk                                      *)
(***************************************************************************)
HasDesk(ids) == \E i \in 1..Len(ids) : ids[i] = DESK_RESOURCE_ID

\* "for resource in <field>: if resource.get('id') == DESK_RESOURCE_ID":
\* "found", "next" (loop ended without a match) or "raise" (iterating None)
ScanResources(field) ==
    IF field.k = "null" THEN "raise"
    ELSE IF field.k = "list" /\ HasDesk(field.v) THEN "found"
    ELSE "next"

\* body of the loop of check_existing_reservations over one item: the flat
\* item.resources first, then the nested item.reservation.resources
ExistingItemScan(item) ==
    IF ~item.obj THEN "raise"
    ELSE LET flat == ScanResources(item.resources)
         IN  IF flat # "next" THEN flat
             ELSE IF item.reservation = "null" THEN "raise"
             ELSE IF item.reservation = "absent" THEN "next"
             ELSE ScanResources(item.res_resources)

RECURSIVE ExistingScanFrom(_, _)
ExistingScanFrom(items, i) ==
    IF i > Len(items) THEN "next"
    ELSE LET r == ExistingItemScan(items[i])
         IN  IF r = "next" THEN ExistingScanFrom(items, i + 1) ELSE r

\* The try block of check_existing_reservations on the response of its list
\* request: "found" (return True inside the loop), "next" (the block ends
\* without a match) or "raise" (requests.get, response.json(), data.get or
\* the loop raised; the except clause prints a warning).
ExistingTry(resp) ==
    IF resp.status = 0 THEN "raise"
    ELSE IF resp.status # 200 THEN "next"
    ELSE IF ~resp.body.json \/ ~resp.body.dict THEN "raise"
    ELSE IF resp.body.itemsKind = "absent" THEN "next"
    ELSE IF resp.body.itemsKind = "null" THEN "raise"
    ELSE ExistingScanFrom(resp.body.items, 1)

\* What check_existing_reservations returns: True only when the scan reaches
\* a match; every other path falls through to "return False".
ExistingFound(resp) == ExistingTry(resp) = "found"

\* body of the loop of checkin_reservation over one event: only the nested
\* event.reservation.resources is read
CheckinEventScan(event) ==
    IF ~event.obj THEN "raise"
    ELSE IF event.reservation = "null" THEN "raise"
    ELSE IF event.reservation = "absent" THEN "next"
    ELSE ScanResources(event.res_resources)

\* index of the target event, 0 when the loop ends without one, -1 when an
\* exception leaves the loop (nothing catches it)
RECURSIVE FindTargetFrom(_, _)
FindTargetFrom(events, i) ==
    IF i > Len(events) THEN 0
    ELSE LET r == CheckinEventScan(events[i])
         IN  IF r = "found" THEN i
             ELSE IF r = "raise" THEN -1
             ELSE FindTargetFrom(events, i + 1)

\* get_todays_events: requests.get, response.json() or data.get raised
TodaysEventsRaised(resp) ==
    resp.status = 0 \/ (resp.status = 200 /\ (~resp.body.json \/ ~resp.body.dict))

\* What get_todays_events returns: the "items" value of a 200 response whose
\* body parses to an object (a list, or None for a null), [] otherwise.
get_todays_events(resp) ==
    IF resp.status = 200 /\ resp.body.json /\ resp.body.dict /\ resp.body.itemsKind # "absent"
    THEN [k |-> resp.body.itemsKind, v |-> resp.body.items]
    ELSE List(<<>>)

\* reservation.get("status", "Unknown")
EventStatus(event) == IF event.status = "absent" THEN "Unknown" ELSE event.status

\* target_event.get("startAt", "") or reservation.get("effectiveStartAt", "")
EventStartAt(event) ==
    IF event.startAt.k # "absent" THEN event.startAt ELSE event.effectiveStartAt

\* the status list consulted before the window
CheckinDecisionStatusFirst(event, clock) ==
    IF EventStatus(event) = "Active" THEN "active"
    ELSE IF EventStatus(event) \notin valid_statuses THEN "ineligible"
    ELSE IF /\ EventStartAt(event).k = "iso"
            /\ clock < EventStartAt(event).t - WINDOW_MINUTES
         THEN "early"
    ELSE "attempt"

\* the window consulted before the "Active" test
CheckinDecisionWindowFirst(event, clock) ==
    IF /\ EventStartAt(event).k = "iso"
       /\ clock < EventStartAt(event).t - WINDOW_MINUTES
    THEN "early"
    ELSE IF EventStatus(event) = "Active" THEN "active"
    ELSE IF EventStatus(event) \notin valid_statuses THEN "ineligible"
    ELSE "attempt"

\* Lines 469-503 of checkin_reservation for the target event, with the clock
\* read at line 479: "active", "early", "ineligible" or "attempt".
CheckinDecision(event, clock) ==
    IF EventStatus(event) = "Active" THEN "active"
    ELSE IF /\ EventStartAt(event).k = "iso"
            /\ clock < EventStartAt(event).t - WINDOW_MINUTES
         THEN "early"
    ELSE IF EventStatus(event) \notin valid_statuses THEN "ineligible"
    ELSE "attempt"

\* any 2xx status taken for success
CheckinOutcomeAny2xx(resp) ==
    IF resp.status \in 200..299 THEN "checked_in" ELSE "checkin_failed"

\* the branch of checkin_reservation a check-in response ends in
CheckinOutcome(resp) == IF resp.status = 202 THEN "checked_in" ELSE "checkin_failed"

\* The branch of create_reservation a create response ends in.  On 201 the
\* body is parsed (response.json(), data.get) inside the try block.
CreateOutcome(resp) ==
    IF resp.status = 0 THEN "request_failed"
    ELSE IF resp.status = 201
         THEN IF resp.body.json /\ resp.body.dict THEN "created" ELSE "request_failed"
    ELSE IF resp.status = 409 THEN "conflict"
    ELSE IF resp.status = 401 THEN "unauthorized"
    ELSE "failed"

\* the except clause of the create request ran
CreateRaised(resp) == CreateOutcome(resp) = "request_failed"

\* main(): the exit code for what the orchestrator returned
BookingExit(success) == IF success THEN 0 ELSE 1
\* sys.exit(1) only on "early"
CheckinExitOnlyEarly(result) == IF result = "early" THEN 1 ELSE 0
CheckinExit(result) == IF result = "early" THEN 1 ELSE IF result = "true" THEN 0 ELSE 1

(***************************************************************************)
(* Token refresh                                                           *)
(***************************************************************************)
\* response of POST /authorization/token: accessToken / refreshToken are ""
\* when the body has no such key
TokenResponse(st, j, d, a, r) ==
    [status |-> st, json |-> j, dict |-> d, accessToken |-> a, refreshToken |-> r]

TokenResponses ==
    {TokenResponse(0, FALSE, FALSE, "", ""), TokenResponse(401, FALSE, FALSE, "", ""),
     TokenResponse(200, FALSE, FALSE, "", ""), TokenResponse(200, TRUE, FALSE, "", ""),
     TokenResponse(200, TRUE, TRUE, "A1", ""), TokenResponse(200, TRUE, TRUE, "A1", "R1")}

\* try_refresh_token: requests.post, response.json() or data.get raised
RefreshRaised(resp) == resp.status = 0 \/ (resp.status = 200 /\ (~resp.json \/ ~resp.dict))

\* a failed refresh that hands back a dict without the tokens it could not
\* renew
RefreshedTokensOrNothing(tok, resp) ==
    IF resp.status = 200 /\ resp.json /\ resp.dict
    THEN [session_token |-> tok.session_token,
          access_token |-> resp.accessToken,
          refresh_token |-> IF resp.refreshToken = "" THEN tok.refresh_token
                            ELSE resp.refreshToken]
    ELSE [session_token |-> tok.session_token, access_token |-> "", refresh_token |-> ""]

\* the dict try_refresh_token returns for a response
RefreshedTokens(tok, resp) ==
    IF resp.status = 200 /\ resp.json /\ resp.dict
    THEN [session_token |-> tok.session_token,
          access_token |-> resp.accessToken,
          refresh_token |-> IF resp.refreshToken = "" THEN tok.refresh_token
                            ELSE resp.refreshToken]
    ELSE tok

(***************************************************************************)
(* State                                                                   *)
(***************************************************************************)
VARIABLES
    argv,          \* sys.argv: checkin flag, --days-ahead, --start-time, --end-time
    environ,       \* APPSPACE_SESSION_TOKEN / APPSPACE_REFRESH_TOKEN ("" when unset)
    now,           \* the local wall clock, in minutes
    ticks,         \* midnights passed during the run
    pc,            \* position of main()
    tokens,        \* the tokens dict
    requests,      \* every HTTP request issued so far, with what came back
    window,        \* booking_date and times computed by create_reservation
    target_event,  \* checkin_reservation: the matched event
    event_id,      \* checkin_reservation: its id (its position in the list)
    clock_read,    \* checkin_reservation: datetime.now() read at line 479
    outcome,       \* the branch the run ended in
    exit_code      \* process exit code, -1 while running

vars == <<argv, environ, now, ticks, pc, tokens, requests, window, target_event,
          event_id, clock_read, outcome, exit_code>>

\* One request: the endpoint, the "token" header, the date it is about (the
\* queried day, or the day of the window; -1 for none), the event id of a
\* check-in, the status that came back (0: transport failure), whether an
\* except clause caught an exception while the call or its response was
\* handled, and for a list request whether the response carried an event
\* holding the desk in its flat and in its nested resource list, and (found)
\* what the scan of check_existing_reservations makes of that response, and
\* (statuses) the statuses its "status" parameter asks for.
Request(ep, tok, date, id, status, raised, flat, nested) ==
    [ep |-> ep, token |-> tok, date |-> date, id |-> id, status |-> status,
     raised |-> raised, flat |-> flat, nested |-> nested, found |-> FALSE,
     statuses |-> NO_STATUS_FILTER]

WellFormedList(resp) ==
    resp.status = 200 /\ resp.body.json /\ resp.body.dict /\ resp.body.itemsKind = "list"

CarriesFlatDesk(resp) ==
    /\ WellFormedList(resp)
    /\ \E i \in 1..Len(resp.body.items) :
          LET it == resp.body.items[i]
          IN  it.obj /\ it.resources.k = "list" /\ HasDesk(it.resources.v)

CarriesNestedDesk(resp) ==
    /\ WellFormedList(resp)
    /\ \E i \in 1..Len(resp.body.items) :
          LET it == resp.body.items[i]
          IN  it.obj /\ it.reservation = "obj" /\ it.res_resources.k = "list"
                /\ HasDesk(it.res_resources.v)

\* What one call of check_existing_reservations makes of a response: the
\* status and the two observations for the request log, and the value the
\* call returns.
ExistingCheck(resp) ==
    [status |-> resp.status, raised |-> ExistingTry(resp) = "raise",
     flat |-> CarriesFlatDesk(resp), nested |-> CarriesNestedDesk(resp),
     found |-> ExistingFound(resp)]

\* every such result over the responses the remote may give
ExistingChecks == {ExistingCheck(resp) : resp \in BookingListResponses}

\* What lines 436-467 of checkin_reservation make of a response: where the
\* search for the target ends ("no_events", "no_target", "uncaught" for an
\* exception out of the loop, "target") and the event found.  found is not
\* read by check-in: it is what the scan of check_existing_reservations
\* returns for the same response.
TargetLookup(resp) ==
    LET events == get_todays_events(resp)
        idx == FindTargetFrom(events.v, 1)
    IN  [status |-> resp.status, raised |-> TodaysEventsRaised(resp),
         flat |-> CarriesFlatDesk(resp), nested |-> CarriesNestedDesk(resp),
         found |-> ExistingFound(resp),
         result |-> IF events.k = "null" \/ Len(events.v) = 0 THEN "no_events"
                    ELSE IF idx = -1 THEN "uncaught"
                    ELSE IF idx = 0 THEN "no_target"
                    ELSE "target",
         idx |-> idx,
         event |-> IF Len(events.v) > 0 /\ idx > 0 THEN events.v[idx] ELSE NotAnObject]

TargetLookups == {TargetLookup(resp) : resp \in CheckinListResponses}

ListRequest(tok, date, r) ==
    [Request("list", tok, date, 0, r.status, r.raised, r.flat, r.nested)
       EXCEPT !.found = r.found]

\* the list request of check_existing_reservations, with its status filter
ExistingListRequest(tok, date, r) ==
    [ListRequest(tok, date, r) EXCEPT !.statuses = EXISTING_STATUS_FILTER]

NoWindow ==
    [date |-> -1, start_hour |-> 0, start_minute |-> 0, end_hour |-> 0, end_minute |-> 0,
     start_utc |-> 0, end_utc |-> 0]
NoEvent == NotAnObject

Exit(o, code) == outcome' = o /\ exit_code' = code /\ pc' = "done"
Running == UNCHANGED <<outcome, exit_code>>

Init ==
    /\ argv \in CommandLines
    /\ environ \in [session_token : {"", "S0"}, refresh_token : {"", "R0"}]
    /\ now \in IF argv.checkin THEN {CheckinClock}
               ELSE {d * MinutesPerDay + 23 * 60 + 59 : d \in 0..6}
    /\ ticks = 0
    /\ pc = "get_tokens"
    /\ tokens = [session_token |-> "", access_token |-> "", refresh_token |-> ""]
    /\ requests = <<>>
    /\ window = NoWindow
    /\ target_event = NoEvent
    /\ event_id = 0
    /\ clock_read = -1
    /\ outcome = "none"
    /\ exit_code = -1

(***************************************************************************)
(* The environment: local midnight passes between two reads of the clock.  *)
(* (Midnight passing before the first read is a run started a day later.)  *)
(***************************************************************************)
ClockReadAhead == {"create_reservation", "reconcile", "checkin_window"}

Tick ==
    /\ pc \in ClockReadAhead
    /\ ticks < MaxTicks
    /\ now' = (DateOf(now) + 1) * MinutesPerDay
    /\ ticks' = ticks + 1
    /\ UNCHANGED <<argv, environ, pc, tokens, requests, window, target_event, event_id,
                   clock_read, outcome, exit_code>>

(***************************************************************************)
(* main(), lines 559-564                                                   *)
(***************************************************************************)
GetTokens ==
    /\ pc = "get_tokens"
    /\ IF environ.session_token = ""
       THEN Exit("no_token", 1) /\ UNCHANGED tokens
       ELSE /\ tokens' = [session_token |-> environ.session_token, access_token |-> "",
                          refresh_token |-> environ.refresh_token]
            /\ pc' = "try_refresh"
            /\ Running
    /\ UNCHANGED <<argv, environ, now, ticks, requests, window, target_event, event_id,
                   clock_read>>

TryRefreshToken ==
    /\ pc = "try_refresh"
    /\ IF tokens.refresh_token = ""
       THEN UNCHANGED <<tokens, requests>>
       ELSE \E resp \in TokenResponses :
              /\ requests' = Append(requests,
                    Request("token", tokens.session_token, -1, 0, resp.status,
                            RefreshRaised(resp), FALSE, FALSE))
              /\ tokens' = RefreshedTokens(tokens, resp)
    /\ pc' = IF argv.checkin THEN "get_todays_events" ELSE "check_existing"
    /\ Running
    /\ UNCHANGED <<argv, environ, now, ticks, window, target_event, event_id, clock_read>>

(***************************************************************************)
(* Booking mode                                                            *)
(***************************************************************************)
\* check_existing_reservations(tokens): reads the clock, returns False for a
\* weekend date without a request, otherwise issues the list request for
\* that date and scans the response.  (First, the same with a list request
\* that is sent a second time when it failed.)
CheckExistingCallRetry(found) ==
    LET booking_date == get_booking_date(now, argv)
    IN  IF ~is_weekday(booking_date)
        THEN found = FALSE /\ UNCHANGED requests
        ELSE \E r \in ExistingChecks, again \in ExistingChecks :
               LET first == Append(requests,
                                   ExistingListRequest(tokens.session_token, booking_date, r))
               IN  IF r.status = 200
                   THEN requests' = first /\ found = r.found
                   ELSE /\ requests' = Append(first,
                              ExistingListRequest(tokens.session_token, booking_date, again))
                        /\ found = again.found

CheckExistingCall(found) ==
    LET booking_date == get_booking_date(now, argv)
    IN  IF ~is_weekday(booking_date)
        THEN found = FALSE /\ UNCHANGED requests
        ELSE \E r \in ExistingChecks :
               /\ requests' = Append(requests,
                                     ExistingListRequest(tokens.session_token, booking_date, r))
               /\ found = r.found

\* main(), lines 580-586
CheckExisting ==
    /\ pc = "check_existing"
    /\ \E found \in BOOLEAN :
         /\ CheckExistingCall(found)
         /\ IF found THEN Exit("skip_existing", 0)
            ELSE pc' = "create_reservation" /\ Running
    /\ UNCHANGED <<argv, environ, now, ticks, tokens, window, target_event, event_id,
                   clock_read>>

\* create_reservation, lines 159-231: the date, the weekend skip, the times,
\* the two datetime(...) constructions, which raise on an hour or minute out
\* of range (nothing catches that), and their conversion to UTC for the
\* payloads of the lock and create requests
CreateReservation ==
    /\ pc = "create_reservation"
    /\ LET booking_date == get_booking_date(now, argv)
           t == get_booking_times(argv)
       IN  IF ~is_weekday(booking_date)
           THEN Exit("skip_weekend", BookingExit(TRUE)) /\ UNCHANGED window
           ELSE IF ~(ValidTime(t.start_hour, t.start_minute)
                       /\ ValidTime(t.end_hour, t.end_minute))
           THEN Exit("uncaught", 1) /\ UNCHANGED window
           ELSE /\ window' = [date |-> booking_date, start_hour |-> t.start_hour,
                              start_minute |-> t.start_minute, end_hour |-> t.end_hour,
                              end_minute |-> t.end_minute,
                              start_utc |-> ToUtc(booking_date, t.start_hour,
                                                  t.start_minute),
                              end_utc |-> ToUtc(booking_date, t.end_hour, t.end_minute)]
                /\ pc' = "lock"
                /\ Running
    /\ UNCHANGED <<argv, environ, now, ticks, tokens, requests, target_event, event_id,
                   clock_read>>

\* create_reservation, lines 233-253: the best-effort lock
LockStatuses == {0, 204, 500}

LockResource ==
    /\ pc = "lock"
    /\ \E st \in LockStatuses :
         requests' = Append(requests,
                            Request("lock", tokens.session_token, window.date, 0, st, st = 0,
                                    FALSE, FALSE))
    /\ pc' = "create"
    /\ Running
    /\ UNCHANGED <<argv, environ, now, ticks, tokens, window, target_event, event_id,
                   clock_read>>

JsonObject == Body(TRUE, TRUE, "absent", <<>>)
JsonNotObject == Body(TRUE, FALSE, "absent", <<>>)

CreateResponses ==
    {TransportError, Response(201, JsonObject), Response(201, NoBody),
     Response(201, JsonNotObject), Response(409, JsonObject), Response(409, NoBody),
     Response(401, NoBody), Response(500, NoBody)}

\* create_reservation, lines 255-300: the create request and its branches
PostReservation ==
    /\ pc = "create"
    /\ \E resp \in CreateResponses :
         /\ requests' = Append(requests,
               Request("create", tokens.session_token, window.date, 0, resp.status,
                       CreateRaised(resp), FALSE, FALSE))
         /\ IF CreateOutcome(resp) = "conflict"
            THEN pc' = "reconcile" /\ Running
            ELSE Exit(CreateOutcome(resp), BookingExit(CreateOutcome(resp) = "created"))
    /\ UNCHANGED <<argv, environ, now, ticks, tokens, window, target_event, event_id,
                   clock_read>>

ReconcileOutcome(found) == IF found THEN "reconciled" ELSE "not_reconciled"

\* create_reservation, lines 280-289: the 409 branch calls
\* check_existing_reservations again
Reconcile ==
    /\ pc = "reconcile"
    /\ \E found \in BOOLEAN :
         /\ CheckExistingCall(found)
         /\ Exit(ReconcileOutcome(found), BookingExit(found))
    /\ UNCHANGED <<argv, environ, now, ticks, tokens, window, target_event, event_id,
                   clock_read>>

(***************************************************************************)
(* Check-in mode                                                           *)
(***************************************************************************)
\* checkin_reservation, lines 436-467: list today's events and find the target
GetTodaysEvents ==
    /\ pc = "get_todays_events"
    /\ \E r \in TargetLookups :
         /\ requests' = Append(requests, ListRequest(tokens.session_token, DateOf(now), r))
         /\ IF r.result = "uncaught"
            THEN Exit("uncaught", 1) /\ UNCHANGED <<target_event, event_id>>
            ELSE IF r.result # "target"
            THEN Exit(r.result, CheckinExit("false")) /\ UNCHANGED <<target_event, event_id>>
            ELSE /\ target_event' = r.event
                 /\ event_id' = r.idx
                 /\ pc' = "checkin_window"
                 /\ Running
    /\ UNCHANGED <<argv, environ, now, ticks, tokens, window, clock_read>>

DecisionResult(d) ==
    IF d = "active" THEN "true" ELSE IF d = "early" THEN "early" ELSE "false"

\* checkin_reservation, lines 469-503: status and window
CheckinWindow ==
    /\ pc = "checkin_window"
    /\ clock_read' = now
    /\ LET d == CheckinDecision(target_event, now)
       IN  IF d = "attempt" THEN pc' = "checkin_post" /\ Running
           ELSE Exit(d, CheckinExit(DecisionResult(d)))
    /\ UNCHANGED <<argv, environ, now, ticks, tokens, requests, window, target_event,
                   event_id>>

CheckinStatuses == {0, 202, 200, 400}

\* checkin_reservation, lines 505-537: the check-in request
CheckinPost ==
    /\ pc = "checkin_post"
    /\ \E st \in CheckinStatuses :
         LET resp == Response(st, NoBody)
         IN  /\ requests' = Append(requests,
                   Request("checkin", tokens.session_token, -1, event_id, st, st = 0,
                           FALSE, FALSE))
             /\ Exit(CheckinOutcome(resp),
                     CheckinExit(IF CheckinOutcome(resp) = "checked_in" THEN "true"
                                 ELSE "false"))
    /\ UNCHANGED <<argv, environ, now, ticks, tokens, window, target_event, event_id,
                   clock_read>>

Next ==
    \/ Tick
    \/ GetTokens
    \/ TryRefreshToken
    \/ CheckExisting
    \/ CreateReservation
    \/ LockResource
    \/ PostReservation
    \/ Reconcile
    \/ GetTodaysEvents
    \/ CheckinWindow
    \/ CheckinPost

Spec == Init /\ [][Next]_vars

(***************************************************************************)
(* Properties                                                              *)
(***************************************************************************)
Reqs(ep) == {i \in DOMAIN requests : requests[i].ep = ep}
Issued(ep) == Reqs(ep) # {}
Done == pc = "done"
\* a booking run that got past get_tokens
BookingRun == ~argv.checkin /\ outcome # "no_token"
\* the response of list request i carried an event holding the desk
Hit(i) == requests[i].flat \/ requests[i].nested
IsWeekend(date) == (date % 7) \in {5, 6}
\* the target date at the moment the run started
StartTargetDate == DateOf(now) - ticks + get_days_ahead(argv)

\* C1: booking mode: once the create call returned 409 and the run has ended,
\* a list query was issued after the create call, and the run ended with exit
\* code 0 if that query's response carried an event holding the desk (in
\* either shape) and with exit code 1 if it carried none.
C1_ConflictIsReconciled ==
    \A i \in Reqs("create") :
      (Done /\ requests[i].status = 409) =>
        \E j \in Reqs("list") :
          /\ j > i
          /\ Hit(j) => exit_code = 0
          /\ ~Hit(j) => exit_code = 1

\* C2: booking mode: if the response of the initial existing-reservation
\* query carries an event holding the desk in its flat or in its nested
\* resource list, the run has ended in the Skip state with exit code 0 and
\* neither a lock nor a create request is ever issued.
C2_ExistingReservationSkips ==
    \A i \in Reqs("list") :
      (~argv.checkin /\ Hit(i) /\ Reqs("create") \cap 1..i = {}) =>
        /\ Done
        /\ outcome = "skip_existing"
        /\ exit_code = 0
        /\ ~Issued("lock")
        /\ ~Issued("create")

\* C3: booking mode: if the target date of the run (local now + days-ahead,
\* as the run starts) is a Saturday or Sunday, no list, lock or create request
\* is ever issued and the run ends with exit code 0.
C3_WeekendSkipsWithoutRequests ==
    (BookingRun /\ IsWeekend(StartTargetDate)) =>
      /\ ~Issued("list")
      /\ ~Issued("lock")
      /\ ~Issued("create")
      /\ Done => exit_code = 0

\* C4: booking mode: whenever the create call returned HTTP 201, whatever the
\* body, the run ends in the Created state with exit code 0.
C4_Status201IsCreated ==
    \A i \in Reqs("create") :
      requests[i].status = 201 => (Done /\ outcome = "created" /\ exit_code = 0)

\* the failure cases C5 lists: create returned 401, another status than
\* 201/409/401, or failed in transport (status 0); or it returned 409 and the
\* reconciliation query carried no event holding the desk
ListedFailure ==
    \E i \in Reqs("create") :
      \/ requests[i].status \notin {201, 409}
      \/ /\ requests[i].status = 409
         /\ ~\E j \in Reqs("list") : j > i /\ Hit(j)

\* C5: booking mode: a finished run has a non-zero exit code exactly in the
\* listed failure cases, exit code 0 in every other terminal state, and after
\* a create call that returned 401, another status or a transport error no
\* further request was made.
C5_FailureExitExactly ==
    (BookingRun /\ Done) =>
      /\ (exit_code # 0) <=> ListedFailure
      /\ exit_code \in {0, 1}
      /\ \A i \in Reqs("create") :
           requests[i].status \notin {201, 409} => i = Len(requests)

\* checkin_reservation has evaluated its target event
Decided == argv.checkin /\ clock_read # -1
EligibleStatuses == {"Confirmed", "Checkin", "Pending", "NotConfirmed"}
\* the start time the target event carries: startAt, else effectiveStartAt
TargetStart ==
    IF target_event.startAt.k = "absent" THEN target_event.effectiveStartAt
    ELSE target_event.startAt
BeforeWindow == TargetStart.k = "iso" /\ clock_read < TargetStart.t - 30
AfterWindow == TargetStart.k = "iso" /\ clock_read > TargetStart.t + 30

\* C6: check-in mode: for a target event that is not Active and carries a
\* parseable start time, if the clock read is strictly before start - 30
\* minutes, the run ends "early" with exit code 1 and no check-in request,
\* whatever the status of the event.
C6_EarlyWindow ==
    (Decided /\ target_event.status # "Active" /\ BeforeWindow) =>
      /\ Done
      /\ outcome = "early"
      /\ exit_code = 1
      /\ ~Issued("checkin")

\* an event of a status outside the eligible set, found before its window
C6_Witness ==
    /\ Decided
    /\ BeforeWindow
    /\ target_event.status = "Completed"
    /\ outcome = "early"

\* C7: check-in mode: for a target event of an eligible status that is not
\* before its window (in it, after it, or with no parseable start time), the
\* check-in request is the next step, and the finished run has issued exactly
\* one check-in request, for that event's id, with exit code 0 iff the
\* request returned 202 and exit code 1 otherwise.
C7_AttemptWhenNotEarly ==
    (Decided /\ target_event.status \in EligibleStatuses /\ ~BeforeWindow) =>
      \/ pc = "checkin_post" /\ ~Issued("checkin") /\ exit_code = -1
      \/ /\ Done
         /\ Cardinality(Reqs("checkin")) = 1
         /\ \A i \in Reqs("checkin") :
              /\ requests[i].id = event_id
              /\ exit_code = IF requests[i].status = 202 THEN 0 ELSE 1

\* a check-in that succeeded after the window had closed
C7_Witness ==
    /\ Decided
    /\ AfterWindow
    /\ Done
    /\ \E i \in Reqs("checkin") : requests[i].status = 202
    /\ exit_code = 0

\* C8: check-in mode: if the target event's status is "Active", the run ends
\* in success with exit code 0 and no check-in request, wherever the clock
\* stands relative to the event's start.
C8_AlreadyActive ==
    (Decided /\ target_event.status = "Active") =>
      /\ Done
      /\ outcome = "active"
      /\ exit_code = 0
      /\ ~Issued("checkin")

\* an Active event found more than 30 minutes before its start
C8_Witness ==
    /\ Decided
    /\ target_event.status = "Active"
    /\ BeforeWindow
    /\ Done

\* C9: check-in mode: if the response to the list of today's events carries
\* no event holding the desk in its reservation's resource list (an empty
\* list, a failed list, or events none of which holds the desk), the run has
\* ended with exit code 1 and no check-in request.
C9_NoReservationFails ==
    \A i \in Reqs("list") :
      (argv.checkin /\ ~requests[i].nested) =>
        /\ Done
        /\ exit_code = 1
        /\ ~Issued("checkin")

\* a list with events, none of which holds the desk in either shape
C9_Witness ==
    /\ argv.checkin
    /\ outcome = "no_target"
    /\ \E i \in Reqs("list") : requests[i].status = 200 /\ ~Hit(i)

\* C10: check-in mode: a check-in request is issued only for a target event
\* whose status is Confirmed, Checkin, Pending or NotConfirmed; with any other
\* status except Active the run ends with exit code 1 and no check-in request.
C10_EligibleStatusOnly ==
    /\ Issued("checkin") => (Decided /\ target_event.status \in EligibleStatuses)
    /\ (Decided /\ target_event.status \notin (EligibleStatuses \cup {"Active"})) =>
         /\ Done
         /\ exit_code = 1
         /\ ~Issued("checkin")

\* an event of status Completed, inside its window, refused
C10_Witness ==
    /\ Decided
    /\ target_event.status = "Completed"
    /\ ~BeforeWindow
    /\ outcome = "ineligible"

\* the initial existing-reservation check sent its list query (the target
\* date was a weekday) and found nothing
CheckedNoneFound ==
    /\ BookingRun
    /\ \E i \in Reqs("list") : Reqs("create") \cap 1..i = {}
    /\ outcome # "skip_existing"

\* C11: booking mode, weekday, no existing reservation found: the finished
\* run has issued the lock request and the create request; every create
\* request directly follows the lock request; after the lock request,
\* whatever its status (204, another, transport failure), the create request
\* is the next step; and the exit code is decided by the create request and
\* the reconciliation alone.
C11_LockThenCreate ==
    CheckedNoneFound =>
      /\ Done => (Issued("lock") /\ Issued("create"))
      /\ \A j \in Reqs("create") : j > 1 /\ requests[j - 1].ep = "lock"
      /\ \A j \in Reqs("lock") :
           IF j = Len(requests) THEN pc = "create" ELSE requests[j + 1].ep = "create"
      /\ \A j \in Reqs("create") :
           Done => (exit_code = 0 <=>
                      \/ requests[j].status = 201 /\ ~requests[j].raised
                      \/ requests[j].status = 409 /\ outcome = "reconciled")

\* the orchestrator the command line selects starts here
OrchestratorStart == IF argv.checkin THEN "get_todays_events" ELSE "check_existing"
\* the token request failed: a transport failure, a status other than 200,
\* or a 200 whose body could not be read
RefreshFailed(r) == r.ep = "token" /\ (r.status # 200 \/ r.raised)

\* C12: the step of try_refresh_token: with no refresh token it issues no
\* request and leaves the credentials as they are; with one it issues exactly
\* one token request, and when that request failed (non-200 status, transport
\* failure, unreadable 200 body) the credentials are left as they are; in
\* every case the run goes on into the selected orchestrator without exiting.
C12_RefreshBestEffort ==
    [][pc = "try_refresh" =>
         /\ pc' = OrchestratorStart
         /\ exit_code' = -1 /\ outcome' = "none"
         /\ IF tokens.refresh_token = ""
            THEN requests' = requests /\ tokens' = tokens
            ELSE /\ Len(requests') = Len(requests) + 1
                 /\ requests'[Len(requests')].ep = "token"
                 /\ RefreshFailed(requests'[Len(requests')]) => tokens' = tokens]_vars

\* a refresh answered 401 after which the booking orchestrator runs with the
\* credentials of the environment
C12_Witness ==
    /\ \E i \in Reqs("token") : requests[i].status = 401
    /\ tokens = [session_token |-> environ.session_token, access_token |-> "",
                 refresh_token |-> environ.refresh_token]
    /\ tokens.refresh_token # ""
    /\ Issued("list")

\* the token request returned 200 with a body that was read
RefreshSucceeded(r) == r.ep = "token" /\ r.status = 200 /\ ~r.raised

\* C13: once the token request has returned 200, every later request (list,
\* lock, create, check-in) carries the refreshed value as its token and not
\* the one read from the environment.
C13_RefreshedCredentialUsed ==
    \A i \in Reqs("token") :
      RefreshSucceeded(requests[i]) =>
        \A j \in DOMAIN requests :
          j > i => /\ requests[j].token = tokens.access_token
                   /\ requests[j].token # environ.session_token

\* C14: whatever the remote answers, the run never ends by an unhandled
\* exception: it ends by a return of main() or an explicit exit, with exit
\* code 0 or 1.
C14_NoUncaughtFault ==
    Done => (outcome # "uncaught" /\ exit_code \in {0, 1})

\* a request that did not succeed: transport failure or a status outside 2xx
Unsuccessful(r) == r.status \notin 200..299

\* C15: in one run the token, lock, create and check-in endpoints are each
\* requested at most once; the list endpoint at most once in check-in mode
\* and at most twice in booking mode, the second time only after a create
\* request that returned 409; and a request that did not succeed is never
\* followed by a request to the same endpoint.
C15_SingleAttempt ==
    /\ \A ep \in {"token", "lock", "create", "checkin"} : Cardinality(Reqs(ep)) <= 1
    /\ Cardinality(Reqs("list")) <= (IF argv.checkin THEN 1 ELSE 2)
    /\ \A i, j \in Reqs("list") :
         i < j => \E k \in Reqs("create") : i < k /\ k < j /\ requests[k].status = 409
    /\ \A i \in DOMAIN requests :
         (Unsuccessful(requests[i]) /\ i < Len(requests)) =>
           requests[i + 1].ep # requests[i].ep

\* a finished booking run with every request of the flow, whose token, first
\* list and lock requests all failed in transport
C15_Witness ==
    /\ Done
    /\ Cardinality(Reqs("list")) = 2
    /\ Issued("token") /\ Issued("lock") /\ Issued("create")
    /\ \A i \in Reqs("token") \cup Reqs("lock") : requests[i].status = 0
    /\ requests[2].ep = "list" /\ requests[2].status = 0

\* a --start-time / --end-time value that is not a valid HH:MM: an hour or a
\* minute that is not a number, an hour outside 0..23, a minute outside 0..59
InvalidTimeArg(arg) ==
    /\ arg.given
    /\ \/ ~arg.parts[1].num
       \/ arg.parts[1].val \notin 0..23
       \/ Len(arg.parts) > 1 /\ (~arg.parts[2].num \/ arg.parts[2].val \notin 0..59)

\* C16: booking mode: with an invalid --start-time the run does not end by
\* an error and the window it builds starts at the default 09:30; with an
\* invalid --end-time likewise and the window ends at the default 17:30.
C16_InvalidTimeFallsBack ==
    BookingRun =>
      /\ InvalidTimeArg(argv.start_time) =>
           /\ outcome # "uncaught"
           /\ window # NoWindow =>
                (window.start_hour = 9 /\ window.start_minute = 30)
      /\ InvalidTimeArg(argv.end_time) =>
           /\ outcome # "uncaught"
           /\ window # NoWindow =>
                (window.end_hour = 17 /\ window.end_minute = 30)

\* start and end of the window in local minutes of its date
LocalStart == window.start_hour * 60 + window.start_minute
LocalEnd == window.end_hour * 60 + window.end_minute

\* C17: whenever a lock or create request has been sent, the two UTC
\* instants of its payload are the conversion of the window's date and local
\* times (the same for the same inputs), and if the local start is before the
\* local end on that date the UTC start is before the UTC end, on every date
\* a window is built for, before, between and after the changes of the UTC
\* offset.
C17_WindowOrderPreserved ==
    (Issued("lock") \/ Issued("create")) =>
      /\ window.start_utc = ToUtc(window.date, window.start_hour, window.start_minute)
      /\ window.end_utc = ToUtc(window.date, window.end_hour, window.end_minute)
      /\ LocalStart < LocalEnd => window.start_utc < window.end_utc

\* a 02:30-03:00 window sent for the Monday after the clocks went forward
C17_Witness ==
    /\ Issued("create")
    /\ window.date = SpringForwardDate + 1
    /\ LocalStart = 2 * 60 + 30 /\ LocalEnd = 3 * 60
    /\ window.end_utc - window.start_utc = 30

\* the list request failed: a transport failure or a status other than 200
ListFailed(r) == r.ep = "list" /\ r.status # 200

\* C18: a list request that failed in transport or returned a non-200
\* status counts as no events: in check-in mode the run has ended "no
\* reservations" with exit code 1 and no check-in request; in booking mode,
\* if it was the initial check, the run is not skipped and ends with the lock
\* and the create request issued, and if it was the reconciliation after a
\* 409, the run has ended in failure with exit code 1.
C18_FailedListIsEmpty ==
    \A i \in Reqs("list") :
      ListFailed(requests[i]) =>
        IF argv.checkin
        THEN Done /\ outcome = "no_events" /\ exit_code = 1 /\ ~Issued("checkin")
        ELSE IF Reqs("create") \cap 1..i = {}
        THEN /\ outcome # "skip_existing"
             /\ Done => (Issued("lock") /\ Issued("create"))
        ELSE Done /\ outcome = "not_reconciled" /\ exit_code = 1

\* C19: booking mode: every list, lock and create request of the run is for
\* the target date the run started with; a weekend skip happens only if that
\* date is a weekend day; a create request for date D comes after a list
\* query for D that found nothing; and after a 409 the finished run has
\* queried the list for the same D again.
C19_OneTargetDate ==
    BookingRun =>
      /\ \A i \in DOMAIN requests :
           requests[i].ep # "token" => requests[i].date = StartTargetDate
      /\ window # NoWindow => window.date = StartTargetDate
      /\ outcome = "skip_weekend" => IsWeekend(StartTargetDate)
      /\ \A i \in Reqs("create") :
           /\ \E j \in Reqs("list") :
                j < i /\ requests[j].date = requests[i].date /\ ~requests[j].found
           /\ (Done /\ requests[i].status = 409) =>
                \E j \in Reqs("list") : j > i /\ requests[j].date = requests[i].date

\* C20: check-in mode: if the list response holds an event that the
\* existing-reservation check of booking recognises as the desk's (flat or
\* nested shape), check-in recognises it too: it does not go through the
\* events and end "no reservation found".
C20_CheckinRecognisesBookingMatch ==
    \A i \in Reqs("list") :
      (argv.checkin /\ requests[i].found) => outcome # "no_target"

\* the statuses check-in treats as checked in or as eligible for check-in
LiveStatuses == {"Active", "Confirmed", "Checkin", "Pending", "NotConfirmed"}

\* C21: booking mode: the status filter of every existing-reservation query
\* (the initial check and the reconciliation after a 409) asks for every
\* status check-in treats as live: Active, Confirmed, Checkin, Pending and
\* NotConfirmed.
C21_FilterCoversLiveStatuses ==
    \A i \in Reqs("list") :
      ~argv.checkin => LiveStatuses \subseteq requests[i].statuses

====
